---- MODULE Spec2Model ----
(***************************************************************************)
(* Heading-to-page reconciliation of challenge-1a.py: the text normalizers *)
(* (clean_text_for_search, remove_numbers_and_special_chars), the heading  *)
(* locator (search_heading_in_pdf_content), the fallback estimator         *)
(* (estimate_page_from_surrounding_headings) and the outline builder loop  *)
(* of extract_headings_from_html.                                          *)
(*                                                                         *)
(* A text is a sequence of one-character strings.  The page corpus is a    *)
(* sequence of texts: a dict whose keys are 1..Len (extract_pdf_content_   *)
(* by_pages numbers the pages i + 1).                                      *)
(***************************************************************************)
EXTENDS Integers, Sequences, FiniteSets

VARIABLES pdf_content_by_page, heading_tags, idx, outline, last_found_page,
          page_number, heading_text, resolution, pc

vars == <<pdf_content_by_page, heading_tags, idx, outline, last_found_page,
          page_number, heading_text, resolution, pc>>

\* ---------------------------------------------------------------- bounds
MaxPages == 3

MaxHeadings == 3

MaxFallbackRun == 7

\* ------------------------------------------------------ character classes
\* \s of the regular expressions
Whitespace == {" ", "\n"}

\* \d of the regular expressions
Digits == {"1", "3"}

\* characters that are neither \w nor \s
Punctuation == {".", "-"}

\* str.lower() on one character
LowerChar(c) ==
    CASE c = "A" -> "a"
      [] c = "B" -> "b"
      [] c = "C" -> "c"
      [] OTHER -> c

\* str.lower()
lower(text) == [i \in 1..Len(text) |-> LowerChar(text[i])]

IsSpace(c) == c \in Whitespace

\* re.sub(r'\s+', ' ', text): every maximal run of whitespace becomes one space
RECURSIVE sub_whitespace_runs(_)
sub_whitespace_runs(text) ==
    IF text = <<>> THEN <<>>
    ELSE IF IsSpace(Head(text))
         THEN IF Len(text) > 1 /\ IsSpace(text[2])
              THEN sub_whitespace_runs(Tail(text))
              ELSE <<" ">> \o sub_whitespace_runs(Tail(text))
         ELSE <<Head(text)>> \o sub_whitespace_runs(Tail(text))

\* re.sub(r'[^\w\s]', ' ', text): each punctuation character becomes a space
sub_punctuation(text) ==
    [i \in 1..Len(text) |-> IF text[i] \in Punctuation THEN " " ELSE text[i]]

\* re.sub(r'\d+', '', text): digit runs are deleted
sub_digits(text) == SelectSeq(text, LAMBDA c : c \notin Digits)

RECURSIVE lstrip(_)
lstrip(text) ==
    IF text # <<>> /\ IsSpace(Head(text)) THEN lstrip(Tail(text)) ELSE text

RECURSIVE rstrip(_)
rstrip(text) ==
    IF text # <<>> /\ IsSpace(text[Len(text)])
    THEN rstrip(SubSeq(text, 1, Len(text) - 1))
    ELSE text

\* str.strip()
strip(text) == rstrip(lstrip(text))

\* clean_text_for_search: lowercase, collapse whitespace, punctuation to
\* spaces, collapse again, strip.  Digits are word characters and stay.
clean_text_for_search(text) ==
    strip(sub_whitespace_runs(sub_punctuation(sub_whitespace_runs(lower(text)))))

\* remove_numbers_and_special_chars: delete digits, punctuation to spaces,
\* collapse whitespace, strip.
remove_numbers_and_special_chars(text) ==
    strip(sub_whitespace_runs(sub_punctuation(sub_digits(text))))

\* str.split(): the maximal runs of non-whitespace characters, in order
RECURSIVE split(_)
split(text) ==
    LET t == lstrip(text)
        WordEnd == IF \E i \in 1..Len(t) : IsSpace(t[i])
                   THEN (CHOOSE i \in 1..Len(t) :
                            /\ IsSpace(t[i])
                            /\ \A j \in 1..(i - 1) : ~IsSpace(t[j])) - 1
                   ELSE Len(t)
    IN IF t = <<>> THEN <<>>
       ELSE <<SubSeq(t, 1, WordEnd)>> \o split(SubSeq(t, WordEnd + 1, Len(t)))

\* " ".join(words)
RECURSIVE join(_)
join(words) ==
    IF words = <<>> THEN <<>>
    ELSE IF Len(words) = 1 THEN words[1]
    ELSE words[1] \o <<" ">> \o join(Tail(words))

\* needle in haystack (Python substring test; the empty string is in every string)
Contains(needle, haystack) ==
    \E i \in 0..(Len(haystack) - Len(needle)) :
        SubSeq(haystack, i + 1, i + Len(needle)) = needle

\* ------------------------------------------------------------ the locator
\* Python's None as a page number (page numbers are integers >= 1)
None == -1

\* sorted(pdf_content_by_page.keys())
sorted_keys(corpus) == [i \in 1..Len(corpus) |-> i]

\* variant: the search starts at the cursor page itself
start_page_at_cursor(lfp) == IF lfp > 0 THEN lfp ELSE 1

\* variant: the search always starts at page 1
start_page_first(lfp) == 1

\* start_page = last_found_page + 1 if last_found_page > 0 else 1
start_page(lfp) == IF lfp > 0 THEN lfp + 1 ELSE 1

\* pages_to_search = [p for p in sorted(keys) if p >= start_page]
pages_to_search(corpus, lfp) ==
    SelectSeq(sorted_keys(corpus), LAMBDA p : p >= start_page(lfp))

\* heading_words = remove_numbers_and_special_chars(clean_text_for_search(h)).split()
clean_heading_no_numbers(text) ==
    remove_numbers_and_special_chars(clean_text_for_search(text))

\* Strategy 1 loop: the pages whose cleaned content holds the cleaned heading
exact_matches(clean_heading, corpus, pages) ==
    SelectSeq(pages,
              LAMBDA p : Contains(clean_heading, clean_text_for_search(corpus[p])))

\* variant: the first occurrence is never skipped
select_exact_first(matches, lfp) == matches[1]

\* the occurrence rule applied to a non-empty candidate list
\*   len == 1 -> [0];  last_found_page == 0 and len > 1 -> [1];  else [0]
select_exact(matches, lfp) ==
    IF Len(matches) = 1 THEN matches[1]
    ELSE IF lfp = 0 /\ Len(matches) > 1 THEN matches[2]
    ELSE matches[1]

\* word_matches = sum(1 for word in heading_words if word in clean_content)
word_matches(heading_words, clean_content) ==
    Cardinality({i \in 1..Len(heading_words) :
                    Contains(heading_words[i], clean_content)})

\* match_ratio >= 0.7, the ratio kept as the pair word_matches / len(heading_words)
ratio_at_least_threshold(ratio) == ratio.num * 10 >= 7 * ratio.den

\* Strategy 2 loop: (page_num, match_ratio) of the pages reaching the threshold
partial_matches(heading_words, corpus, pages) ==
    LET ratio_of(p) ==
            [num |-> word_matches(heading_words, clean_text_for_search(corpus[p])),
             den |-> Len(heading_words)]
        scored == [i \in 1..Len(pages) |->
                      [page_num |-> pages[i], match_ratio |-> ratio_of(pages[i])]]
    IN SelectSeq(scored, LAMBDA m : ratio_at_least_threshold(m.match_ratio))

\* r1 > r2 on ratios
ratio_greater(r1, r2) == r1.num * r2.den > r2.num * r1.den

\* variant: the list is left in page order
sort_by_ratio_unsorted(matches) == matches

\* partial_matches.sort(key=lambda x: x[1], reverse=True): a stable sort,
\* equal ratios keep their (ascending page) order
RECURSIVE sort_by_ratio_reverse(_)
sort_by_ratio_reverse(matches) ==
    IF matches = <<>> THEN <<>>
    ELSE LET x == Head(matches)
             rest == sort_by_ratio_reverse(Tail(matches))
         IN SelectSeq(rest, LAMBDA m : ratio_greater(m.match_ratio, x.match_ratio))
            \o <<x>>
            \o SelectSeq(rest, LAMBDA m : ~ratio_greater(m.match_ratio, x.match_ratio))

\* the occurrence rule of strategy 2 on the sorted list
select_partial(sorted, lfp) ==
    IF Len(sorted) = 1 THEN sorted[1].page_num
    ELSE IF lfp = 0 /\ Len(sorted) > 1 THEN sorted[2].page_num
    ELSE sorted[1].page_num

\* Strategy 3 loop: the pages holding some phrase of 3 consecutive heading words
sequence_matches(heading_words, corpus, pages) ==
    SelectSeq(pages,
              LAMBDA p : \E i \in 0..(Len(heading_words) - 3) :
                  Contains(join(SubSeq(heading_words, i + 1, i + 3)),
                           clean_text_for_search(corpus[p])))

\* the occurrence rule of strategy 3
select_sequence(matches, lfp) ==
    IF Len(matches) = 1 THEN matches[1]
    ELSE IF lfp = 0 /\ Len(matches) > 1 THEN matches[2]
    ELSE matches[1]

\* variant: the word-overlap strategy is tried before the exact match
search_partial_first(text, corpus, lfp) ==
    LET clean_heading == clean_heading_no_numbers(text)
        heading_words == split(clean_heading)
        pages == pages_to_search(corpus, lfp)
        exact == exact_matches(clean_heading, corpus, pages)
        partial == partial_matches(heading_words, corpus, pages)
        sequence == sequence_matches(heading_words, corpus, pages)
    IN IF corpus = <<>> THEN None
       ELSE IF Len(heading_words) >= 2 /\ partial # <<>>
            THEN select_partial(sort_by_ratio_reverse(partial), lfp)
       ELSE IF exact # <<>> THEN select_exact(exact, lfp)
       ELSE IF Len(heading_words) >= 3 /\ sequence # <<>>
            THEN select_sequence(sequence, lfp)
       ELSE None

\* search_heading_in_pdf_content(heading_text, pdf_content_by_page, last_found_page)
search_heading_in_pdf_content(text, corpus, lfp) ==
    LET clean_heading == clean_heading_no_numbers(text)
        heading_words == split(clean_heading)
        pages == pages_to_search(corpus, lfp)
        exact == exact_matches(clean_heading, corpus, pages)
        partial == partial_matches(heading_words, corpus, pages)
        sequence == sequence_matches(heading_words, corpus, pages)
    IN IF corpus = <<>> THEN None
       ELSE IF exact # <<>> THEN select_exact(exact, lfp)
       ELSE IF Len(heading_words) >= 2 /\ partial # <<>>
            THEN select_partial(sort_by_ratio_reverse(partial), lfp)
       ELSE IF Len(heading_words) >= 3 /\ sequence # <<>>
            THEN select_sequence(sequence, lfp)
       ELSE None

\* ------------------------------------------------- the fallback estimator
\* max_page = max(pdf_content_by_page.keys()) if pdf_content_by_page else 6
DefaultMaxPage == 6

\* variant: without a corpus the document is taken to have one page
max_page_one(corpus) == IF corpus # <<>> THEN Len(corpus) ELSE 1

max_page(corpus) == IF corpus # <<>> THEN Len(corpus) ELSE DefaultMaxPage

min(a, b) == IF a <= b THEN a ELSE b

\* the truth value of a page number: None and 0 are false
truthy(page) == page # None /\ page # 0

\* for heading in reversed(existing_outline): if heading.get("page"): ... break
last_outline_page(existing_outline) ==
    LET found == {i \in 1..Len(existing_outline) : truthy(existing_outline[i].page)}
    IN IF found = {} THEN None
       ELSE existing_outline[CHOOSE i \in found : \A j \in found : j <= i].page

\* variant: the next page is not clamped to the last page
estimate_unclamped(text, existing_outline, corpus, lfp) ==
    IF existing_outline = <<>> THEN 1
    ELSE IF lfp > 0 THEN lfp + 1
    ELSE IF truthy(last_outline_page(existing_outline))
         THEN last_outline_page(existing_outline) + 1
    ELSE 1

\* variant: the estimate restarts from the first page
estimate_first_page(text, existing_outline, corpus, lfp) == 1

\* estimate_page_from_surrounding_headings(heading_text, existing_outline,
\*                                         pdf_content_by_page, last_found_page)
estimate_page_from_surrounding_headings(text, existing_outline, corpus, lfp) ==
    IF existing_outline = <<>> THEN 1
    ELSE IF lfp > 0 THEN min(lfp + 1, max_page(corpus))
    ELSE IF truthy(last_outline_page(existing_outline))
         THEN min(last_outline_page(existing_outline) + 1, max_page(corpus))
    ELSE 1

\* ----------------------------------------------------- the outline builder
\* heading.name.upper()
upper(name) ==
    CASE name = "h1" -> "H1"
      [] name = "h2" -> "H2"
      [] name = "h3" -> "H3"
      [] name = "h4" -> "H4"
      [] name = "h5" -> "H5"
      [] name = "h6" -> "H6"

\* variant: the cursor is never moved
update_never(page, lfp) == lfp

\* variant: the cursor advances by one page instead of taking the page
update_by_one(page, lfp) ==
    IF truthy(page) /\ page > lfp THEN lfp + 1 ELSE lfp

\* if page_number and page_number > last_found_page: last_found_page = page_number
update_last_found_page(page, lfp) ==
    IF truthy(page) /\ page > lfp THEN page ELSE lfp

\* if text and len(text) > 2
meaningful(text) == text # <<>> /\ Len(text) > 2

\* variant: an unresolved search is not estimated
resolve_without_fallback(text, existing_outline, corpus, lfp) ==
    search_heading_in_pdf_content(text, corpus, lfp)

\* page_number = search(...); if page_number is None: page_number = estimate(...)
resolve_page(text, existing_outline, corpus, lfp) ==
    LET found == search_heading_in_pdf_content(text, corpus, lfp)
    IN IF found = None
       THEN estimate_page_from_surrounding_headings(text, existing_outline, corpus, lfp)
       ELSE found

\* ------------------------------------------------------------------ inputs
\* page texts: "a b", "a 3 b", "b c d", "abcd", "A \nB.c", ""
PageTexts ==
    { <<"a", " ", "b">>,
      <<"a", " ", "3", " ", "b">>,
      <<"b", " ", "c", " ", "d">>,
      <<"a", "b", "c", "d">>,
      <<"A", " ", "\n", "B", ".", "c">>,
      <<>> }

\* heading texts: "A b", "a-b c", "a b c d", "a b c d e", "abc", "1.3", "a 3 b"
HeadingTexts ==
    { <<"A", " ", "b">>,
      <<"a", "-", "b", " ", "c">>,
      <<"a", " ", "b", " ", "c", " ", "d">>,
      <<"a", " ", "b", " ", "c", " ", "d", " ", "e">>,
      <<"a", "b", "c">>,
      <<"1", ".", "3">>,
      <<"a", " ", "3", " ", "b">> }

\* the corpora of extract_pdf_content_by_pages: pages 1..M, M = 0 when the
\* loader is unavailable
CorporaOver(texts, maxPages) ==
    UNION { [1..m -> texts] : m \in 0..maxPages }

\* page texts of the outline-builder runs: "a b", "b c d", "abcd"
PassPageTexts ==
    { <<"a", " ", "b">>,
      <<"b", " ", "c", " ", "d">>,
      <<"a", "b", "c", "d">> }

\* heading tags of the outline-builder runs: "A b", "a b c d", "1.3", "abc"
\* and one that strips to "a."
PassTags ==
    { [name |-> "h1", text |-> <<"A", " ", "b">>],
      [name |-> "h2", text |-> <<"a", " ", "b", " ", "c", " ", "d">>],
      [name |-> "h3", text |-> <<"1", ".", "3">>],
      [name |-> "h4", text |-> <<"a", "b", "c">>],
      [name |-> "h2", text |-> <<" ", "a", ".", "\n">>] }

\* heading tags of the runs without a corpus
NoCorpusTags ==
    { [name |-> "h1", text |-> <<"A", " ", "b">>],
      [name |-> "h6", text |-> <<" ", "a", ".", "\n">>] }

TagListsOver(tags, maxLen) ==
    UNION { [1..n -> tags] : n \in 0..maxLen }

\* ------------------------------------------------ the outline-builder pass
\* state at "outline = []; last_found_page = 0", before the loop
Init ==
    /\ pdf_content_by_page \in CorporaOver(PassPageTexts, MaxPages)
    /\ heading_tags \in TagListsOver(PassTags, MaxHeadings)
    /\ idx = 0
    /\ outline = <<>>
    /\ last_found_page = 0
    /\ page_number = None
    /\ heading_text = <<>>
    /\ resolution = <<>>
    /\ pc = "loop"

\* the same, with extract_pdf_content_by_pages having returned {}
InitNoCorpus ==
    /\ pdf_content_by_page = <<>>
    /\ heading_tags \in TagListsOver(NoCorpusTags, MaxFallbackRun)
    /\ idx = 0
    /\ outline = <<>>
    /\ last_found_page = 0
    /\ page_number = None
    /\ heading_text = <<>>
    /\ resolution = <<>>
    /\ pc = "loop"

\* heading.get_text(strip=True)
get_text(tag) == strip(tag.text)

\* one iteration of "for heading in heading_tags" with meaningful text
ProcessHeading ==
    /\ pc = "loop"
    /\ idx < Len(heading_tags)
    /\ LET heading == heading_tags[idx + 1]
           level == upper(heading.name)
           text == get_text(heading)
           found == search_heading_in_pdf_content(text, pdf_content_by_page,
                                                  last_found_page)
           page == resolve_page(text, outline, pdf_content_by_page,
                                last_found_page)
       IN /\ meaningful(text)
          /\ heading_text' = text
          /\ page_number' = page
          /\ last_found_page' = update_last_found_page(page, last_found_page)
          /\ outline' = Append(outline,
                               [level |-> level, text |-> text, page |-> page])
          /\ resolution' = Append(resolution,
                                  [via |-> IF found = None THEN "estimate"
                                                           ELSE "search",
                                   cursor |-> last_found_page])
    /\ idx' = idx + 1
    /\ UNCHANGED <<pdf_content_by_page, heading_tags, pc>>

\* one iteration with text of length <= 2: nothing is appended
SkipHeading ==
    /\ pc = "loop"
    /\ idx < Len(heading_tags)
    /\ ~meaningful(get_text(heading_tags[idx + 1]))
    /\ idx' = idx + 1
    /\ UNCHANGED <<pdf_content_by_page, heading_tags, outline, last_found_page,
                   page_number, heading_text, resolution, pc>>

\* the loop is exhausted: headings_data is returned
ReturnHeadings ==
    /\ pc = "loop"
    /\ idx = Len(heading_tags)
    /\ pc' = "done"
    /\ UNCHANGED <<pdf_content_by_page, heading_tags, idx, outline,
                   last_found_page, page_number, heading_text, resolution>>

Next == ProcessHeading \/ SkipHeading \/ ReturnHeadings

Spec == Init /\ [][Next]_vars

SpecNoCorpus == InitNoCorpus /\ [][Next]_vars

\* ------------------------------------------- the locator as a pure function
InitLocate ==
    /\ pdf_content_by_page \in CorporaOver(PageTexts, MaxPages)
    /\ heading_text \in HeadingTexts
    /\ last_found_page \in 0..MaxPages
    /\ page_number = None
    /\ heading_tags = <<>>
    /\ idx = 0
    /\ outline = <<>>
    /\ resolution = <<>>
    /\ pc = "call"

\* one call of search_heading_in_pdf_content
Locate ==
    /\ pc = "call"
    /\ page_number' = search_heading_in_pdf_content(heading_text,
                                                    pdf_content_by_page,
                                                    last_found_page)
    /\ pc' = "returned"
    /\ UNCHANGED <<pdf_content_by_page, heading_tags, idx, outline,
                   last_found_page, heading_text, resolution>>

NextLocate == Locate

SpecLocate == InitLocate /\ [][NextLocate]_vars

\* ============================================================= properties
\* the last page M of a non-empty corpus
M == Len(pdf_content_by_page)

\* the records appended so far, by position
Records == 1..Len(outline)

\* the pages on which the cleaned heading occurs verbatim in the cleaned page
ExactPages(text, corpus) ==
    {p \in 1..Len(corpus) :
        Contains(clean_heading_no_numbers(text), clean_text_for_search(corpus[p]))}

\* the pages after the cursor
Window(corpus, lfp) == {p \in 1..Len(corpus) : p > lfp}

\* the k-th smallest element of a finite set of integers
KthSmallest(S, k) == CHOOSE x \in S : Cardinality({y \in S : y < x}) = k - 1

\* C1: with a non-empty corpus of pages 1..M every record of the outline
\* carries an integer page between 1 and M.
C1_PageWithinCorpus ==
    pdf_content_by_page # <<>> =>
        \A i \in Records : outline[i].page \in 1..M

\* C1 witness: a finished pass over a non-empty corpus with a located record
\* and an estimated record that the clamp held at the last page.
C1_Witness ==
    /\ pc = "done"
    /\ pdf_content_by_page # <<>>
    /\ \E i \in Records : resolution[i].via = "search"
    /\ \E i \in Records : /\ resolution[i].via = "estimate"
                          /\ resolution[i].cursor = M
                          /\ outline[i].page = M

\* C2 as stated: with an empty corpus every heading is unresolved by the
\* locator and every record has page exactly 1.
C2_AllPagesOne ==
    pdf_content_by_page = <<>> =>
        \A i \in Records : /\ resolution[i].via = "estimate"
                           /\ outline[i].page = 1

\* C2 amended: with an empty corpus every heading is unresolved by the
\* locator, the first record has page 1 and each later record has the page
\* after the cursor clamped to 6, so the k-th record has page min(k, 6).
C2_PagesCountToSix ==
    pdf_content_by_page = <<>> =>
        \A i \in Records : /\ resolution[i].via = "estimate"
                           /\ outline[i].page = (IF i <= 6 THEN i ELSE 6)

\* C2 witness: a finished pass without corpus whose seventh record was held
\* at page 6.
C2_Witness ==
    /\ pc = "done"
    /\ pdf_content_by_page = <<>>
    /\ Len(outline) >= 7
    /\ outline[1].page = 1
    /\ outline[7].page = 6

\* C3: called with a cursor c > 0 the locator returns None or a page >= c + 1;
\* with c = 0 page 1 is searched too, so a heading whose only verbatim page
\* is any page of the corpus is returned that page.
C3_ForwardWindow ==
    pc = "returned" =>
        /\ last_found_page > 0 =>
              page_number = None \/ page_number >= last_found_page + 1
        /\ last_found_page = 0 =>
              \A p \in 1..M :
                  ExactPages(heading_text, pdf_content_by_page) = {p}
                      => page_number = p

\* C3 witness: a call with c > 0 that returned a page after c although the
\* heading occurs verbatim on a page <= c.
C3_Witness ==
    /\ pc = "returned"
    /\ last_found_page > 0
    /\ page_number >= last_found_page + 1
    /\ \E p \in ExactPages(heading_text, pdf_content_by_page) :
           p <= last_found_page

\* C4: with cursor 0 and two or more verbatim pages the locator returns the
\* second smallest of them; with a cursor > 0 and two or more verbatim pages
\* in the window it returns the smallest of those.
C4_FirstOccurrenceSkip ==
    pc = "returned" =>
        LET inWindow == ExactPages(heading_text, pdf_content_by_page)
                        \cap Window(pdf_content_by_page, last_found_page)
        IN Cardinality(inWindow) >= 2 =>
              page_number = (IF last_found_page = 0
                             THEN KthSmallest(inWindow, 2)
                             ELSE KthSmallest(inWindow, 1))

\* C4 witness: cursor 0, verbatim on pages 1 and 3 only, page 3 returned.
C4_Witness ==
    /\ pc = "returned"
    /\ last_found_page = 0
    /\ ExactPages(heading_text, pdf_content_by_page) = {1, 3}
    /\ page_number = 3

\* C5 as stated: whatever the cursor, a heading that occurs verbatim on
\* exactly one page of the corpus is returned that page.
C5_UniqueExactAnyCursor ==
    pc = "returned" =>
        \A p \in 1..M :
            ExactPages(heading_text, pdf_content_by_page) = {p}
                => page_number = p

\* C5 amended: a heading that occurs verbatim on exactly one page of the
\* corpus, that page lying after the cursor, is returned that page.
C5_UniqueExactInWindow ==
    pc = "returned" =>
        \A p \in Window(pdf_content_by_page, last_found_page) :
            ExactPages(heading_text, pdf_content_by_page) = {p}
                => page_number = p

\* C5 witness: the only verbatim page is returned while an earlier page of
\* the window holds every heading word without holding the heading.
C5_Witness ==
    /\ pc = "returned"
    /\ ExactPages(heading_text, pdf_content_by_page) = {page_number}
    /\ \E q \in Window(pdf_content_by_page, last_found_page) :
           /\ q < page_number
           /\ LET words == split(clean_heading_no_numbers(heading_text))
              IN /\ Len(words) >= 2
                 /\ \A i \in 1..Len(words) :
                        Contains(words[i],
                                 clean_text_for_search(pdf_content_by_page[q]))

\* C6: every page returned by the fallback estimator is >= the cursor at
\* that moment, and an estimated record that follows a located record has a
\* page >= the located page.
C6_FallbackNotBehindCursor ==
    /\ \A i \in Records :
           resolution[i].via = "estimate"
               => outline[i].page >= resolution[i].cursor
    /\ \A i \in Records :
           (i > 1 /\ resolution[i - 1].via = "search"
                  /\ resolution[i].via = "estimate")
               => outline[i].page >= outline[i - 1].page

\* C6 witness: a located record on a page > 1 followed by an estimated one.
C6_Witness ==
    \E i \in Records :
        /\ i > 1
        /\ resolution[i - 1].via = "search"
        /\ outline[i - 1].page > 1
        /\ resolution[i].via = "estimate"

\* the headings of the list all have a stripped text longer than 2
AllMeaningful == \A i \in 1..Len(heading_tags) : Len(strip(heading_tags[i].text)) > 2

\* C7: for a list of headings with stripped text longer than 2 the outline
\* holds one record per heading processed, in order, with the heading's level
\* and text and an integer page that is not None; the pass ends with all
\* headings processed.
C7_OneRecordPerHeading ==
    AllMeaningful =>
        /\ Len(outline) = idx
        /\ \A i \in Records :
               /\ outline[i].level = upper(heading_tags[i].name)
               /\ outline[i].text = strip(heading_tags[i].text)
               /\ outline[i].page # None
               /\ outline[i].page \in Nat \ {0}
        /\ pc = "done" => idx = Len(heading_tags)

\* C7 witness: a finished pass over three headings, among them a single-word
\* heading and a heading without any word, one of them estimated.
C7_Witness ==
    /\ pc = "done"
    /\ AllMeaningful
    /\ Len(outline) = 3
    /\ \E i \in Records : Len(split(clean_heading_no_numbers(outline[i].text))) = 0
    /\ \E i \in Records : Len(split(clean_heading_no_numbers(outline[i].text))) = 1
    /\ \E i \in Records : resolution[i].via = "estimate"

\* the largest page of the outline, 0 when it is empty
MaxOutlinePage ==
    IF outline = <<>> THEN 0
    ELSE CHOOSE m \in {outline[i].page : i \in Records} :
             \A i \in Records : outline[i].page <= m

\* C8: the cursor equals the largest page of the outline (0 when empty), it
\* never decreases, and it changes only to a page just assigned that is
\* strictly greater than its value.
C8_CursorInvariant ==
    /\ [](last_found_page = MaxOutlinePage)
    /\ [][/\ last_found_page' >= last_found_page
          /\ last_found_page' # last_found_page =>
                /\ page_number' > last_found_page
                /\ last_found_page' = page_number'
                /\ outline'[Len(outline')].page = page_number']_vars

\* C8 witness: a record whose page equals the cursor it was resolved under,
\* after an earlier record moved the cursor by more than one page.
C8_Witness ==
    /\ \E i \in Records : /\ outline[i].page = resolution[i].cursor
                          /\ resolution[i].cursor > 0
    /\ \E i \in Records : outline[i].page > resolution[i].cursor + 1

\* strict normalization of a page text: digits removed as well
normalizeStrict(text) == remove_numbers_and_special_chars(clean_text_for_search(text))

\* C9: a page of the window is an exact-match candidate exactly when the
\* strict-normalized heading is a substring of the strict-normalized page text.
C9_ExactOnStrictPageText ==
    pc = "returned" =>
        LET pages == pages_to_search(pdf_content_by_page, last_found_page)
            exact == exact_matches(clean_heading_no_numbers(heading_text),
                                   pdf_content_by_page, pages)
        IN \A p \in Window(pdf_content_by_page, last_found_page) :
               (\E k \in 1..Len(exact) : exact[k] = p)
                   <=> Contains(normalizeStrict(heading_text),
                                normalizeStrict(pdf_content_by_page[p]))

\* the number of heading words present in a page
WordsPresent(words, content) ==
    Cardinality({i \in 1..Len(words) : Contains(words[i], clean_text_for_search(content))})

\* C10: when no window page is an exact match and the heading has >= 2 words,
\* the candidates are the window pages holding at least 70% of the heading
\* words, ranked by fraction descending and page ascending; the result is the
\* only candidate, or with several the second-ranked one under cursor 0 and
\* the first-ranked one under a cursor > 0.
C10_WordOverlap ==
    pc = "returned" =>
        LET words == split(clean_heading_no_numbers(heading_text))
            window == Window(pdf_content_by_page, last_found_page)
            present(p) == WordsPresent(words, pdf_content_by_page[p])
            candidates == {p \in window : 10 * present(p) >= 7 * Len(words)}
            before(q, p) == \/ present(q) > present(p)
                            \/ present(q) = present(p) /\ q < p
            ranked(k) == CHOOSE p \in candidates :
                             Cardinality({q \in candidates : before(q, p)}) = k - 1
        IN (/\ ExactPages(heading_text, pdf_content_by_page) \cap window = {}
            /\ Len(words) >= 2
            /\ candidates # {})
           => page_number = (IF Cardinality(candidates) = 1 THEN ranked(1)
                             ELSE IF last_found_page = 0 THEN ranked(2)
                             ELSE ranked(1))

\* C10 witness: cursor 0, two candidates, the later page holding more of the
\* heading words, so that the earlier page is second-ranked and returned.
C10_Witness ==
    /\ pc = "returned"
    /\ last_found_page = 0
    /\ ExactPages(heading_text, pdf_content_by_page) = {}
    /\ LET words == split(clean_heading_no_numbers(heading_text))
       IN /\ Len(words) >= 2
          /\ \E p, q \in 1..M :
                /\ p < q
                /\ page_number = p
                /\ 10 * WordsPresent(words, pdf_content_by_page[p]) >= 7 * Len(words)
                /\ WordsPresent(words, pdf_content_by_page[q])
                       > WordsPresent(words, pdf_content_by_page[p])

\* C11: the cursor is 0 for the first heading processed and for no later one:
\* once a record is appended the cursor is >= 1, so only the first record is
\* resolved under cursor 0 and every later located page lies strictly after
\* the cursor it was searched under.
C11_CursorZeroOnlyFirst ==
    /\ outline # <<>> => last_found_page >= 1
    /\ \A i \in Records :
           /\ resolution[i].cursor = 0 <=> i = 1
           /\ (i > 1 /\ resolution[i].via = "search")
                  => outline[i].page > resolution[i].cursor

\* C11 witness: the first record was located on page 2 by the second-candidate
\* rule (page 1 holds the heading too) and a later record was located after
\* the cursor.
C11_Witness ==
    /\ Len(outline) >= 2
    /\ resolution[1].via = "search"
    /\ outline[1].page = 2
    /\ 1 \in ExactPages(outline[1].text, pdf_content_by_page)
    /\ \E i \in Records : /\ i > 1
                          /\ resolution[i].via = "search"
                          /\ resolution[i].cursor >= 1

\* C12: with a non-empty corpus each record after the first has a page
\* greater than its predecessor's or equal to M; after a record with page M
\* every later record is estimated (the window being empty) with page M; no
\* two records share a page below M.
C12_StrictlyIncreasingUntilLast ==
    pdf_content_by_page # <<>> =>
        /\ \A i \in Records :
               i > 1 => \/ outline[i].page > outline[i - 1].page
                        \/ outline[i].page = M
        /\ \A i, j \in Records :
               (i < j /\ outline[i].page = M)
                   => /\ Window(pdf_content_by_page, resolution[j].cursor) = {}
                      /\ resolution[j].via = "estimate"
                      /\ outline[j].page = M
        /\ \A i, j \in Records :
               (i # j /\ outline[i].page = outline[j].page)
                   => outline[i].page = M

\* C12 witness: a finished pass over three pages whose records were located
\* on pages 2 and 3 and then estimated on page 3.
C12_Witness ==
    /\ pc = "done"
    /\ M = 3
    /\ Len(outline) = 3
    /\ outline[1].page = 2 /\ resolution[1].via = "search"
    /\ outline[2].page = 3 /\ resolution[2].via = "search"
    /\ outline[3].page = 3 /\ resolution[3].via = "estimate"

====
